---------------------------- MODULE Spec2Model ----------------------------
(***************************************************************************)
(* A model of scrape_nature.py: the crawl loop of scrape_nature and the    *)
(* pure helpers it calls (parse_listing, sanitize_filename, extract_title, *)
(* extract_teaser_or_body), each of which is also run alone.               *)
(*                                                                         *)
(* Python strings are modelled as sequences of one-character strings, so   *)
(* that strip(), join(), translate() and the regular expressions of the    *)
(* source are computed rather than assumed.                                *)
(***************************************************************************)
EXTENDS Integers, Sequences, FiniteSets, TLC

(***************************************************************************)
(* Bounds of the model.                                                    *)
(***************************************************************************)
MaxPages == 2
MaxTitleLen == 5

(***************************************************************************)
(* Strings.                                                                *)
(***************************************************************************)
\* An optional value (a tag, an attribute, a string that may be None) is a
\* sequence of at most one element: None, or Some(v)
None == <<>>
Some(v) == <<v>>
Val(o) == o[1]

WHITESPACE == {" ", "\t", "\n"}

LOWER == <<"a","b","c","d","e","f","g","h","i","j","k","l","m",
           "n","o","p","q","r","s","t","u","v","w","x","y","z">>
UPPER == <<"A","B","C","D","E","F","G","H","I","J","K","L","M",
           "N","O","P","Q","R","S","T","U","V","W","X","Y","Z">>
DIGITS == {"0","1","2","3","4","5","6","7","8","9"}

Range(s) == {s[i] : i \in DOMAIN s}

\* str.upper() on one character
UpperChar(c) ==
    IF \E i \in DOMAIN LOWER : LOWER[i] = c
    THEN UPPER[CHOOSE i \in DOMAIN LOWER : LOWER[i] = c]
    ELSE c

\* str.lower() on one character
LowerChar(c) ==
    IF \E i \in DOMAIN UPPER : UPPER[i] = c
    THEN LOWER[CHOOSE i \in DOMAIN UPPER : UPPER[i] = c]
    ELSE c

Upper(s) == [i \in DOMAIN s |-> UpperChar(s[i])]
Lower(s) == [i \in DOMAIN s |-> LowerChar(s[i])]

RECURSIVE LStrip(_)
LStrip(s) == IF s # <<>> /\ Head(s) \in WHITESPACE THEN LStrip(Tail(s)) ELSE s

RECURSIVE RStrip(_)
RStrip(s) ==
    IF s # <<>> /\ s[Len(s)] \in WHITESPACE
    THEN RStrip(SubSeq(s, 1, Len(s) - 1))
    ELSE s

\* str.strip()
Strip(s) == LStrip(RStrip(s))

\* str.rstrip("_")
RECURSIVE RStripUnderscore(_)
RStripUnderscore(s) ==
    IF s # <<>> /\ s[Len(s)] = "_"
    THEN RStripUnderscore(SubSeq(s, 1, Len(s) - 1))
    ELSE s

\* sep.join(parts)
RECURSIVE Join(_, _)
Join(parts, sep) ==
    IF parts = <<>> THEN <<>>
    ELSE IF Len(parts) = 1 THEN parts[1]
    ELSE parts[1] \o sep \o Join(Tail(parts), sep)

\* [x for x in s if keep(x)]
RECURSIVE SelectNonEmpty(_)
SelectNonEmpty(parts) ==
    IF parts = <<>> THEN <<>>
    ELSE IF Head(parts) # <<>>
         THEN <<Head(parts)>> \o SelectNonEmpty(Tail(parts))
         ELSE SelectNonEmpty(Tail(parts))

\* truthiness of an optional string: None and "" are both falsy
Truthy(o) == o # None /\ Val(o) # <<>>

(***************************************************************************)
(* sanitize_filename                                                       *)
(***************************************************************************)
\* the grave accent (U+0060), which a TLA+ string literal cannot hold
BACKTICK == "U+0060"

\* string.punctuation, the characters PUNCT_TABLE deletes
PUNCTUATION == {"!", "\"", "#", "$", "%", "&", "'", "(", ")", "*", "+", ",",
                "-", ".", "/", ":", ";", "<", "=", ">", "?", "@", "[", "\\",
                "]", "^", "_", BACKTICK, "{", "|", "}", "~"}

WINDOWS_RESERVED ==
    {<<"C","O","N">>, <<"P","R","N">>, <<"A","U","X">>, <<"N","U","L">>}
    \cup {<<"C","O","M",d>> : d \in DIGITS \ {"0"}}
    \cup {<<"L","P","T",d>> : d \in DIGITS \ {"0"}}

DEFAULT_MAX_LEN == 120

\* re.sub(r"\s+", " ", s)
RECURSIVE CollapseWhitespace(_)
CollapseWhitespace(s) ==
    IF s = <<>> THEN <<>>
    ELSE IF Head(s) \in WHITESPACE
         THEN <<" ">> \o CollapseWhitespace(LStrip(Tail(s)))
         ELSE <<Head(s)>> \o CollapseWhitespace(Tail(s))

\* s.translate(PUNCT_TABLE)
RECURSIVE Translate(_)
Translate(s) ==
    IF s = <<>> THEN <<>>
    ELSE IF Head(s) \in PUNCTUATION
         THEN Translate(Tail(s))
         ELSE <<Head(s)>> \o Translate(Tail(s))

\* s.replace(" ", "_")
ReplaceSpaces(s) == [i \in DOMAIN s |-> IF s[i] = " " THEN "_" ELSE s[i]]

SafeChar(c) == c \in Range(LOWER) \cup Range(UPPER) \cup DIGITS \cup {"_", "-"}

\* re.sub(r"[^A-Za-z0-9_\-]+", "", s)
RECURSIVE KeepSafe(_)
KeepSafe(s) ==
    IF s = <<>> THEN <<>>
    ELSE IF SafeChar(Head(s))
         THEN <<Head(s)>> \o KeepSafe(Tail(s))
         ELSE KeepSafe(Tail(s))

\* s[:n]
Truncate(s, n) == SubSeq(s, 1, IF Len(s) < n THEN Len(s) ELSE n)

sanitize_filename(title, max_len) ==
    LET b1 == Strip(title)
        b2 == CollapseWhitespace(b1)
        b3 == ReplaceSpaces(Translate(b2))
        b4 == KeepSafe(b3)
        b5 == IF b4 = <<>> THEN <<"u","n","t","i","t","l","e","d">> ELSE b4
        b6 == IF Upper(b5) \in WINDOWS_RESERVED THEN <<"_">> \o b5 \o <<"_">> ELSE b5
    IN  RStripUnderscore(Truncate(b6, max_len))

(***************************************************************************)
(* extract_teaser_or_body: the text part.                                  *)
(*                                                                         *)
(* The article markup is the record of what the selectors of the function  *)
(* find in it:                                                             *)
(*   og, desc : the content attribute of the first og:description /        *)
(*              description meta tag (None: no such tag, or no attribute)  *)
(*   vis      : the text nodes of the first visible teaser element (None:  *)
(*              no such element)                                           *)
(*   body     : for each of the four container selectors, in order, the    *)
(*              paragraphs of the first element it selects, each paragraph *)
(*              a sequence of text nodes (None: the selector selects       *)
(*              nothing)                                                   *)
(***************************************************************************)
SENTINEL == <<"N","o"," ","c","o","n","t","e","n","t"," ",
              "a","v","a","i","l","a","b","l","e",".">>

\* tag.get_text(sep, strip=True): the stripped, non-empty text nodes joined
GetText(nodes, sep) ==
    Join(SelectNonEmpty([i \in DOMAIN nodes |-> Strip(nodes[i])]), sep)

\* the loop of lines 83-91 over the selectors' attribute values, from teaser
RECURSIVE MetaTeaserLoop(_, _)
MetaTeaserLoop(attrs, teaser) ==
    IF attrs = <<>> THEN teaser
    ELSE IF Truthy(Head(attrs))
         THEN LET t == Strip(Val(Head(attrs)))
              IN  IF t # <<>> THEN t ELSE MetaTeaserLoop(Tail(attrs), t)
         ELSE MetaTeaserLoop(Tail(attrs), teaser)

\* Teaser, were the visible teaser preferred to the meta descriptions
Teaser_VisibleFirst(m) ==
    IF m.vis # None /\ GetText(Val(m.vis), <<>>) # <<>>
    THEN GetText(Val(m.vis), <<>>)
    ELSE MetaTeaserLoop(<<m.og, m.desc>>, <<>>)

\* lines 82-97
Teaser(m) ==
    LET teaser == MetaTeaserLoop(<<m.og, m.desc>>, <<>>)
    IN  IF teaser = <<>>
        THEN IF m.vis # None THEN GetText(Val(m.vis), <<>>) ELSE teaser
        ELSE teaser

\* the loop of lines 101-112 over the containers, from body_parts
RECURSIVE BodyLoop(_, _)
BodyLoop(containers, body_parts) ==
    IF containers = <<>> THEN body_parts
    ELSE LET body == Head(containers)
         IN  IF body # None
             THEN LET ps == Val(body)
                      parts == SelectNonEmpty(
                                  [i \in DOMAIN ps |-> GetText(ps[i], <<" ">>)])
                  IN  IF parts # <<>> THEN parts
                      ELSE BodyLoop(Tail(containers), parts)
             ELSE BodyLoop(Tail(containers), body_parts)

\* lines 100-118: the text extract_teaser_or_body returns
ExtractText(m) ==
    LET body_parts == BodyLoop(m.body, <<>>)
        t1 == Strip(Join(body_parts, <<"\n", "\n">>))
        t2 == IF t1 = <<>> THEN Strip(Teaser(m)) ELSE t1
    IN  IF t2 = <<>> THEN SENTINEL ELSE t2

(***************************************************************************)
(* The meta of extract_teaser_or_body (lines 120-127), a dict modelled as  *)
(* a function of its keys.                                                 *)
(*                                                                         *)
(*   dcDate, datePublished, dcType, typeSpan : the first element selected  *)
(*       by meta[name="dc.date"], meta[itemprop="datePublished"],          *)
(*       meta[name="dc.type"] and span[data-test="article.type"] (None: no *)
(*       element), each the record of its content attribute (None: no such *)
(*       attribute) and of its text nodes                                  *)
(***************************************************************************)
EMPTY_DICT == <<>>

\* a or b, of two elements selected: an element is truthy
OrElse(a, b) == IF a # None THEN a ELSE b

\* lines 120-126
ExtractMeta(soup) ==
    LET pub == OrElse(soup.dcDate, soup.datePublished)
        t == OrElse(soup.dcType, soup.typeSpan)
        m1 == IF pub # None /\ Truthy(Val(pub).content)
              THEN ("published" :> Val(Val(pub).content)) @@ EMPTY_DICT
              ELSE EMPTY_DICT
    IN  IF t # None
        THEN ("type" :> (IF Val(t).content # None THEN Val(Val(t).content)
                         ELSE GetText(Val(t).text, <<>>))) @@ m1
        ELSE m1

(***************************************************************************)
(* extract_title                                                           *)
(*                                                                         *)
(*   metaTitles : for each of the four meta selectors, in order, the       *)
(*                content attribute of the first tag selected (None: no    *)
(*                tag; a tag without the attribute reads as "")            *)
(*   headings   : for each of the four heading selectors, the text nodes   *)
(*                of the first element selected (None: no element)         *)
(*   titleTag   : the text nodes of <title> (None: no such element)        *)
(***************************************************************************)
NO_TITLE == <<"N","o"," ","T","i","t","l","e">>
CONTENT == <<"c","o","n","t","e","n","t">>
NATURE == <<"N","a","t","u","r","e">>

AllWhitespace(s) == \A i \in DOMAIN s : s[i] \in WHITESPACE

HasPrefix(s, pre) == Len(s) >= Len(pre) /\ SubSeq(s, 1, Len(pre)) = pre

\* ".*$" matches rest: no line break in it, but for one that ends the string
DotStarToEnd(rest) ==
    \A i \in DOMAIN rest : rest[i] = "\n" => i = Len(rest)

\* whether \s*\|\s*Nature.*$ matches s from position i on
SuffixMatchesAt(s, i) ==
    \E k \in i..Len(s) :
        /\ AllWhitespace(SubSeq(s, i, k - 1))
        /\ s[k] = "|"
        /\ LET after == LStrip(SubSeq(s, k + 1, Len(s)))
           IN  /\ HasPrefix(after, NATURE)
               /\ DotStarToEnd(SubSeq(after, Len(NATURE) + 1, Len(after)))

\* re.sub(r"\s*\|\s*Nature.*$", "", s): the leftmost match runs to the end of
\* the string, or to the line break that ends it
StripNatureSuffix(s) ==
    IF \E i \in DOMAIN s : SuffixMatchesAt(s, i)
    THEN LET i == CHOOSE j \in DOMAIN s :
                      /\ SuffixMatchesAt(s, j)
                      /\ \A l \in 1..(j - 1) : ~SuffixMatchesAt(s, l)
         IN  SubSeq(s, 1, i - 1)
             \o (IF s[Len(s)] = "\n" THEN <<"\n">> ELSE <<>>)
    ELSE s

\* lines 49-60: the first accepted meta candidate, None when there is none
RECURSIVE MetaTitleLoop(_)
MetaTitleLoop(tags) ==
    IF tags = <<>> THEN None
    ELSE IF Head(tags) # None
         THEN LET val == Strip(Val(Head(tags)))
              IN  IF val # <<>> /\ Lower(val) # CONTENT
                  THEN Some(val)
                  ELSE MetaTitleLoop(Tail(tags))
         ELSE MetaTitleLoop(Tail(tags))

\* lines 63-73: the first non-empty heading, None when there is none
RECURSIVE HeadingLoop(_)
HeadingLoop(hs) ==
    IF hs = <<>> THEN None
    ELSE IF Head(hs) # None /\ GetText(Val(Head(hs)), <<" ">>) # <<>>
         THEN Some(GetText(Val(Head(hs)), <<" ">>))
         ELSE HeadingLoop(Tail(hs))

\* extract_title, were the headings tried before the meta tags
extract_title_HeadingFirst(soup) ==
    LET m == MetaTitleLoop(soup.metaTitles)
        h == HeadingLoop(soup.headings)
        txt == IF soup.titleTag # None
               THEN GetText(Val(soup.titleTag), <<>>)
               ELSE NO_TITLE
    IN  IF h # None THEN Val(h)
        ELSE IF m # None THEN Val(m)
        ELSE StripNatureSuffix(txt)

\* lines 46-78
extract_title(soup) ==
    LET m == MetaTitleLoop(soup.metaTitles)
        h == HeadingLoop(soup.headings)
        txt == IF soup.titleTag # None
               THEN GetText(Val(soup.titleTag), <<>>)
               ELSE NO_TITLE
    IN  IF m # None THEN Val(m)
        ELSE IF h # None THEN Val(h)
        ELSE StripNatureSuffix(txt)

(***************************************************************************)
(* parse_listing                                                           *)
(*                                                                         *)
(* A listing page is the sequence of its <article> blocks, each the record *)
(*   href : the href of its "view article" link (None: no link, or no      *)
(*          href, or an empty one)                                         *)
(*   span : the text nodes of its article.type span (None: no span)        *)
(***************************************************************************)
BASE_URL == "https://www.nature.com"

\* urljoin(BASE_URL, href) on the hrefs of the model
urljoin(base, href) ==
    CASE href = "/articles/a1" -> "https://www.nature.com/articles/a1"
      [] href = "/articles/a2" -> "https://www.nature.com/articles/a2"
      [] OTHER -> href

RECURSIVE parse_listing(_)
parse_listing(html) ==
    IF html = <<>> THEN <<>>
    ELSE LET art == Head(html)
         IN  IF art.href = None
             THEN parse_listing(Tail(html))
             ELSE <<[url |-> urljoin(BASE_URL, Val(art.href)),
                     type |-> IF art.span # None
                              THEN Some(GetText(Val(art.span), <<>>))
                              ELSE None]>>
                  \o parse_listing(Tail(html))

(***************************************************************************)
(* scrape_nature: what a run is given.                                     *)
(***************************************************************************)
NEWS == <<"N","e","w","s">>
COMMENT == <<"C","o","m","m","e","n","t">>

\* --type: no filter, or News
ARTICLE_TYPES == {<<>>, NEWS}

HREFS == {"/articles/a1", "https://www.nature.com/articles/a1", "/articles/a2"}

\* the article.type span of a listing block: News with the markup's
\* indentation around it, Comment
SPAN_NEWS == Some(<<<<"\n", " ">> \o NEWS \o <<" ">>>>)
SPAN_COMMENT == Some(<<COMMENT>>)

\* the <article> blocks of the listing pages
BLOCK_NEWS_1 == [href |-> Some("/articles/a1"), span |-> SPAN_NEWS]
BLOCK_COMMENT_1 ==
    [href |-> Some("https://www.nature.com/articles/a1"), span |-> SPAN_COMMENT]
BLOCK_NEWS_2 == [href |-> Some("/articles/a2"), span |-> SPAN_NEWS]
BLOCK_UNTYPED_2 == [href |-> Some("/articles/a2"), span |-> None]
BLOCK_NO_LINK == [href |-> None, span |-> SPAN_NEWS]

\* the listing pages the site may answer with
LISTINGS ==
    {<<>>,
     <<BLOCK_COMMENT_1>>,
     <<BLOCK_NEWS_1, BLOCK_NEWS_2>>,
     <<BLOCK_NEWS_1, BLOCK_COMMENT_1>>,
     <<BLOCK_NEWS_2, BLOCK_NEWS_1>>,
     <<BLOCK_NO_LINK, BLOCK_UNTYPED_2, BLOCK_NEWS_1>>}

NoTags == <<None, None, None, None>>

\* the article pages the site may answer with
\* citation_title "a"; an empty container, then one with the paragraphs
\* "x ", "" and "y"
SOUP_BODY ==
    [metaTitles |-> <<None, None, Some(<<"a">>), None>>, headings |-> NoTags,
     titleTag |-> None, og |-> None, desc |-> None, vis |-> None,
     body |-> <<None, Some(<< <<<<" ">>>> >>),
                Some(<< <<<<"x", " ">>>>, <<>>, <<<<"y">>>> >>), None>>,
     dcDate |-> None, datePublished |-> None, dcType |-> None,
     typeSpan |-> None]
\* og:title "", dc.title "content", a heading "a" + "a"; og:description " ",
\* description " t"; datePublished "2", an article.type span "N"
SOUP_TEASER ==
    [metaTitles |-> <<Some(<<>>), Some(CONTENT), None, None>>,
     headings |-> <<None, None, Some(<<<<"a", " ">>, <<" ", "a">>>>), None>>,
     titleTag |-> None, og |-> Some(<<" ">>), desc |-> Some(<<" ", "t">>),
     vis |-> None, body |-> NoTags,
     dcDate |-> None,
     datePublished |-> Some([content |-> Some(<<"2">>), text |-> <<>>]),
     dcType |-> None,
     typeSpan |-> Some([content |-> None, text |-> <<<<"N">>>>])]
\* <title>a | Nature</title>; description " ", a teaser element of white space
SOUP_EMPTY ==
    [metaTitles |-> NoTags, headings |-> NoTags,
     titleTag |-> Some(<<<<"a", " ", "|", " ">> \o NATURE>>),
     og |-> None, desc |-> Some(<<" ">>), vis |-> Some(<<<<"\n">>>>),
     body |-> NoTags,
     dcDate |-> None, datePublished |-> None, dcType |-> None,
     typeSpan |-> None]

ARTICLE_SOUPS == {SOUP_BODY, SOUP_TEASER, SOUP_EMPTY}

\* abs(hash(url)) for the urls of a run: the hash of a str is seeded per process
HASHES == {10, 16777226, 11259375}

OLD_TEXT == <<"o","l","d">>

\* what the output directory holds when the run starts: nothing, or the
\* Page_1/a.txt of an earlier run
OUTDIRS == {<<>>, (<<1, <<"a">>>> :> OLD_TEXT)}

(***************************************************************************)
(* scrape_nature: the state of a run.                                      *)
(***************************************************************************)
VARIABLES
    pages,          \* parameter
    article_type,   \* parameter
    files,          \* outdir: <<page, base name>> -> text of Page_<page>/<name>.txt
    dirs,           \* outdir: the pages whose Page_<n> directory exists
    seen,
    saved,
    page_num,
    listing,        \* what parse_listing returned for the last listing answered
    todo,           \* "for it in matched": the items the loop has yet to leave,
                    \* the one it is at first
    art,            \* the article between its fetch and its record
    meta_buf,       \* meta_f: records written and still in the file object's buffer
    meta_disk,      \* metadata.jsonl: records of this run that are in the file
    pc,
    returned,
    last_req,       \* history: the last request issued and how it ended
    slept,          \* history: time.sleep(delay) was called since last_req
    gets,           \* history: url -> how the article requests issued for it ended
    listings,       \* history: the pages whose listing was requested, in order
    writes,         \* history: the text files written by the run, in order
    soup_arg,       \* extract_teaser_or_body alone: its argument
    text_ret,       \* extract_teaser_or_body alone: the text it returned
    meta_ret,       \* extract_teaser_or_body alone: the meta it returned
    title_ret,      \* extract_title alone: the title it returned
    name_arg,       \* sanitize_filename alone: its argument
    name_ret,       \* sanitize_filename alone: the name it returned
    again_ret       \* sanitize_filename alone: the name returned for name_ret

crawl_vars == <<pages, article_type, files, dirs, seen, saved, page_num, listing,
                todo, art, meta_buf, meta_disk, pc, returned, last_req, slept,
                gets, listings, writes>>
fn_vars == <<soup_arg, text_ret, meta_ret, title_ret, name_arg, name_ret,
             again_ret>>
vars == <<crawl_vars, fn_vars>>

URLS == {urljoin(BASE_URL, h) : h \in HREFS}

\* lines 143-149: the run is at its first listing request
Start(n, filter, outdir) ==
    /\ pages = n
    /\ article_type = filter
    /\ files = outdir
    /\ dirs = {p[1] : p \in DOMAIN outdir}
    /\ seen = {}
    /\ saved = 0
    /\ page_num = 1
    /\ listing = <<>>
    /\ todo = <<>>
    /\ art = None
    /\ meta_buf = <<>>
    /\ meta_disk = <<>>
    /\ pc = "listing"
    /\ returned = None
    /\ last_req = None
    /\ slept = FALSE
    /\ gets = [u \in URLS |-> <<>>]
    /\ listings = <<>>
    /\ writes = <<>>

\* no function is called alone
NoCall ==
    /\ soup_arg = None
    /\ text_ret = None
    /\ meta_ret = None
    /\ title_ret = None
    /\ name_arg = None
    /\ name_ret = None
    /\ again_ret = None

Init ==
    /\ \E n \in 0..MaxPages, filter \in ARTICLE_TYPES, outdir \in OUTDIRS :
           Start(n, filter, outdir)
    /\ NoCall

\* a response that is not 200, or a requests.RequestException
FAILURES == {"non200", "exception"}

\* session.get(): the request is issued and ends with status
Get(op, page, url, status) ==
    /\ last_req' = Some([op |-> op, page |-> page, url |-> url, status |-> status])
    /\ slept' = FALSE

\* time.sleep(delay)
Sleep == slept' = TRUE

\* session.get() and then time.sleep(delay)
GetThenSleep(op, page, url, status) ==
    /\ last_req' = Some([op |-> op, page |-> page, url |-> url, status |-> status])
    /\ Sleep

\* Matches, were an item without a declared type to pass every filter
Matches_Untyped(it, filter) ==
    \/ filter = <<>>
    \/ it.type = None
    \/ Strip(IF Truthy(it.type) THEN Val(it.type) ELSE <<>>) = filter

\* line 166
Matches(it, filter) ==
    filter = <<>> \/ Strip(IF Truthy(it.type) THEN Val(it.type) ELSE <<>>) = filter

RECURSIVE Matched(_, _)
Matched(items, filter) ==
    IF items = <<>> THEN <<>>
    ELSE IF Matches(Head(items), filter)
         THEN <<Head(items)>> \o Matched(Tail(items), filter)
         ELSE Matched(Tail(items), filter)

\* NextPage, were a failed or empty page to end the loop ("break")
NextPage_Break(n) == pages + 1

\* lines 160, 164, 170: "continue" of the loop over the pages
NextPage(n) == n + 1

\* lines 156-164: the listing request of page_num fails: continue
ListingFails(status) ==
    /\ pc = "listing"
    /\ page_num <= pages
    /\ Get("listing", page_num, None, status)
    /\ listings' = Append(listings, page_num)
    /\ page_num' = NextPage(page_num)
    /\ UNCHANGED <<fn_vars, listing, pages, article_type,
                   files, dirs, seen, saved, todo, art,
                   meta_buf, meta_disk, pc, returned, gets, writes>>

\* lines 156-172: the listing request of page_num answers 200 with html
ListingOk(html) ==
    /\ pc = "listing"
    /\ page_num <= pages
    /\ listings' = Append(listings, page_num)
    /\ listing' = parse_listing(html)
    /\ LET m == Matched(parse_listing(html), article_type)
       IN  IF m = <<>>
           THEN /\ GetThenSleep("listing", page_num, None, "ok")
                /\ page_num' = NextPage(page_num)
                /\ UNCHANGED <<dirs, todo, pc>>
           ELSE /\ Get("listing", page_num, None, "ok")
                /\ dirs' = dirs \cup {page_num}
                /\ todo' = m
                /\ pc' = "items"
                /\ UNCHANGED page_num
    /\ UNCHANGED <<fn_vars, pages, article_type,
                   files, seen, saved, art, meta_buf,
                   meta_disk, returned, gets, writes>>

\* Seen, were the test of line 176 missing
Seen_Unchecked(url) == FALSE

\* line 176
Seen(url) == url \in seen

\* lines 174-177: the url of the item was seen
SkipSeen ==
    /\ pc = "items"
    /\ todo # <<>>
    /\ Seen(Head(todo).url)
    /\ todo' = Tail(todo)
    /\ UNCHANGED <<fn_vars, listing, pages, article_type,
                   files, dirs, seen, saved, page_num, art,
                   meta_buf, meta_disk, pc, returned, last_req, slept, gets,
                   listings, writes>>

\* lines 184, 190: "continue" of the loop over the items
NextItem(items) == Tail(items)

\* ArticleFails, were the records not yet on disk dropped with the article
ArticleFails_Rollback(status) ==
    /\ pc = "items"
    /\ todo # <<>>
    /\ ~Seen(Head(todo).url)
    /\ seen' = seen \cup {Head(todo).url}
    /\ Get("article", page_num, Some(Head(todo).url), status)
    /\ gets' = [gets EXCEPT ![Head(todo).url] = Append(@, status)]
    /\ todo' = NextItem(todo)
    /\ meta_buf' = <<>>
    /\ UNCHANGED <<fn_vars, listing, pages, article_type,
                   files, dirs, saved, page_num, art,
                   meta_disk, pc, returned, listings, writes>>

\* ArticleFails, were the url added to seen only once it is fetched
ArticleFails_Unseen(status) ==
    /\ pc = "items"
    /\ todo # <<>>
    /\ ~Seen(Head(todo).url)
    /\ Get("article", page_num, Some(Head(todo).url), status)
    /\ gets' = [gets EXCEPT ![Head(todo).url] = Append(@, status)]
    /\ todo' = NextItem(todo)
    /\ UNCHANGED <<fn_vars, listing, pages, article_type,
                   files, dirs, seen, saved, page_num, art,
                   meta_buf, meta_disk, pc, returned, listings, writes>>

\* lines 174-190: the article request fails: continue
ArticleFails(status) ==
    /\ pc = "items"
    /\ todo # <<>>
    /\ ~Seen(Head(todo).url)
    /\ seen' = seen \cup {Head(todo).url}
    /\ Get("article", page_num, Some(Head(todo).url), status)
    /\ gets' = [gets EXCEPT ![Head(todo).url] = Append(@, status)]
    /\ todo' = NextItem(todo)
    /\ UNCHANGED <<fn_vars, listing, pages, article_type,
                   files, dirs, saved, page_num, art,
                   meta_buf, meta_disk, pc, returned, listings, writes>>

HexDigit(d) ==
    <<"0","1","2","3","4","5","6","7","8","9","a","b","c","d","e","f">>[d + 1]

\* hex(n)[2:]
RECURSIVE Hex(_)
Hex(n) == IF n < 16 THEN <<HexDigit(n)>> ELSE Hex(n \div 16) \o <<HexDigit(n % 16)>>

HASH_MOD == 16777216

\* lines 192-201: the path the article is written to
FilePath(title, page, hash, existing) ==
    LET s == sanitize_filename(title, DEFAULT_MAX_LEN)
        fname == IF s # <<>> THEN s ELSE <<"a","r","t","i","c","l","e">>
    IN  IF <<page, fname>> \in existing
        THEN <<page, fname \o <<"_">> \o Hex(hash % HASH_MOD)>>
        ELSE <<page, fname>>

\* TextToWrite, were the joined body text written as it is
TextToWrite_BodyOnly(soup) == Strip(Join(BodyLoop(soup.body, <<>>), <<"\n", "\n">>))

\* lines 187, 203-204: the text the article's file gets
TextToWrite(soup) ==
    LET text == ExtractText(soup)
    IN  IF Strip(text) = <<>> THEN SENTINEL ELSE text

\* lines 174-204: the article request answers 200 with soup
ArticleOk(soup, hash) ==
    /\ pc = "items"
    /\ todo # <<>>
    /\ ~Seen(Head(todo).url)
    /\ seen' = seen \cup {Head(todo).url}
    /\ Get("article", page_num, Some(Head(todo).url), "ok")
    /\ gets' = [gets EXCEPT ![Head(todo).url] = Append(@, "ok")]
    /\ art' = Some([soup |-> soup,
                    title |-> extract_title(soup),
                    text |-> TextToWrite(soup),
                    meta |-> ExtractMeta(soup),
                    filepath |-> FilePath(extract_title(soup), page_num, hash,
                                          DOMAIN files)])
    /\ pc' = "write"
    /\ UNCHANGED <<fn_vars, listing, pages, article_type,
                   files, dirs, saved, page_num, todo,
                   meta_buf, meta_disk, returned, listings, writes>>

\* WriteFile, were the record appended without the file being written
WriteFile_Skipped ==
    /\ pc = "write"
    /\ pc' = "record"
    /\ UNCHANGED <<fn_vars, listing, pages, article_type, files, dirs, seen,
                   saved, page_num, todo, art, meta_buf, meta_disk, returned,
                   last_req, slept, gets, listings, writes>>

\* lines 205-206
WriteFile ==
    /\ pc = "write"
    /\ files' = (Val(art).filepath :> Val(art).text) @@ files
    /\ writes' = Append(writes, [path |-> Val(art).filepath,
                                 existed |-> Val(art).filepath \in DOMAIN files])
    /\ pc' = "record"
    /\ UNCHANGED <<fn_vars, listing, pages, article_type,
                   dirs, seen, saved, page_num, todo, art,
                   meta_buf, meta_disk, returned, last_req, slept, gets,
                   listings>>

\* line 205: open() raises OSError, which nothing catches
WriteFileFails ==
    /\ pc = "write"
    /\ pc' = "crashed"
    /\ UNCHANGED <<fn_vars, listing, pages, article_type,
                   files, dirs, seen, saved, page_num, todo,
                   art, meta_buf, meta_disk, returned, last_req, slept, gets,
                   listings, writes>>

\* line 211: meta_f.write(): the line goes to the buffer of the file object,
\* which writes its content to the file when it is full
MetaWrite(rec, full) ==
    IF full
    THEN /\ meta_disk' = meta_disk \o meta_buf \o <<rec>>
         /\ meta_buf' = <<>>
    ELSE /\ meta_buf' = Append(meta_buf, rec)
         /\ UNCHANGED meta_disk

\* lines 208-214: rec, updated with meta, then with listed_type
AppendRecord(full) ==
    /\ pc = "record"
    /\ MetaWrite(("listed_type" :> Head(todo).type)
                    @@ Val(art).meta
                    @@ [title |-> Val(art).title, url |-> Head(todo).url,
                        file |-> Val(art).filepath, page |-> page_num], full)
    /\ saved' = saved + 1
    /\ Sleep
    /\ art' = None
    /\ todo' = Tail(todo)
    /\ pc' = "items"
    /\ UNCHANGED <<fn_vars, listing, pages, article_type,
                   files, dirs, seen, page_num, returned,
                   last_req, gets, listings, writes>>

\* line 216: the items of the page are exhausted
EndPage ==
    /\ pc = "items"
    /\ todo = <<>>
    /\ page_num' = page_num + 1
    /\ pc' = "listing"
    /\ UNCHANGED <<fn_vars, listing, pages, article_type,
                   files, dirs, seen, saved, todo, art,
                   meta_buf, meta_disk, returned, last_req, slept, gets,
                   listings, writes>>

\* lines 218-220: the pages are exhausted
Finish ==
    /\ pc = "listing"
    /\ page_num > pages
    /\ meta_disk' = meta_disk \o meta_buf
    /\ meta_buf' = <<>>
    /\ returned' = Some(saved)
    /\ pc' = "done"
    /\ UNCHANGED <<fn_vars, listing, pages, article_type,
                   files, dirs, seen, saved, page_num, todo,
                   art, last_req, slept, gets, listings, writes>>

CrawlNext ==
    \/ \E status \in FAILURES : ListingFails(status)
    \/ \E html \in LISTINGS : ListingOk(html)
    \/ SkipSeen
    \/ \E status \in FAILURES : ArticleFails(status)
    \/ \E soup \in ARTICLE_SOUPS, hash \in HASHES : ArticleOk(soup, hash)
    \/ WriteFile
    \/ WriteFileFails
    \/ \E full \in BOOLEAN : AppendRecord(full)
    \/ EndPage
    \/ Finish

Next == CrawlNext

\* a run of scrape_nature
Spec == Init /\ [][Next]_vars

\* a run of scrape_nature that goes on: the program is sequential and every
\* request has a timeout (lines 157, 181), so that a step that can be taken is
\* taken
SpecFair == Spec /\ WF_vars(Next)

(***************************************************************************)
(* extract_teaser_or_body alone, on the markup of one article.             *)
(***************************************************************************)
OG_ATTRS == {None, Some(<<>>), Some(<<" ">>), Some(<<" ", "o">>)}
DESC_ATTRS == {None, Some(<<"\n">>), Some(<<"d", " ">>)}
TEASER_TAGS == {None, Some(<<>>), Some(<<<<" ">>>>),
                Some(<<<<"v", " ">>, <<" ">>, <<"w">>>>)}

\* what a container selector may select: nothing, an element without
\* paragraphs, one whose only paragraph is blank, one with the paragraphs
\* "<c> ", "", "p" + " q"
CONTAINERS(c) ==
    {None, Some(<<>>), Some(<< <<<<" ">>>> >>),
     Some(<< <<<<c, " ">>>>, <<>>, <<<<"p">>, <<" ", "q">>>> >>)}

EXTRACT_SOUPS ==
    {[metaTitles |-> NoTags, headings |-> NoTags, titleTag |-> None,
      og |-> og, desc |-> desc, vis |-> vis, body |-> <<c1, c2, c3, c4>>,
      dcDate |-> None, datePublished |-> None, dcType |-> None,
      typeSpan |-> None] :
        og \in OG_ATTRS, desc \in DESC_ATTRS, vis \in TEASER_TAGS,
        c1 \in CONTAINERS("1"), c2 \in CONTAINERS("2"),
        c3 \in CONTAINERS("3"), c4 \in CONTAINERS("4")}

ExtractInit ==
    /\ Start(0, <<>>, <<>>)
    /\ soup_arg \in {Some(m) : m \in EXTRACT_SOUPS}
    /\ text_ret = None
    /\ meta_ret = None
    /\ title_ret = None
    /\ name_arg = None
    /\ name_ret = None
    /\ again_ret = None

\* text, meta = extract_teaser_or_body(soup)
ExtractCall ==
    /\ text_ret = None
    /\ text_ret' = Some(ExtractText(Val(soup_arg)))
    /\ meta_ret' = Some(ExtractMeta(Val(soup_arg)))
    /\ UNCHANGED <<crawl_vars, soup_arg, title_ret, name_arg, name_ret,
                   again_ret>>

ExtractNext == ExtractCall

SpecExtract == ExtractInit /\ [][ExtractNext]_vars

(***************************************************************************)
(* extract_teaser_or_body alone, on the date and type markup of an article *)
(* whose text is "p".                                                      *)
(***************************************************************************)
\* a meta element: none, one without content, with content "", with content v
META_TAGS(v) ==
    {None, Some([content |-> None, text |-> <<>>]),
     Some([content |-> Some(<<>>), text |-> <<>>]),
     Some([content |-> Some(<<v>>), text |-> <<>>])}

\* the article.type span: none, an empty one, a blank one, " N", and one with
\* a content attribute "" around "N"
TYPE_SPANS ==
    {None, Some([content |-> None, text |-> <<>>]),
     Some([content |-> None, text |-> <<<<" ">>>>]),
     Some([content |-> None, text |-> <<<<" ", "N">>>>]),
     Some([content |-> Some(<<>>), text |-> <<<<"N">>>>])}

META_SOUPS ==
    {[metaTitles |-> NoTags, headings |-> NoTags, titleTag |-> None,
      og |-> o, desc |-> None, vis |-> None,
      body |-> <<Some(<< <<<<"p">>>> >>), None, None, None>>,
      dcDate |-> d, datePublished |-> p, dcType |-> t, typeSpan |-> s] :
        o \in {None, Some(<<"o">>)},
        d \in META_TAGS("1"), p \in META_TAGS("2"), t \in META_TAGS("A"),
        s \in TYPE_SPANS}

MetaInit ==
    /\ Start(0, <<>>, <<>>)
    /\ soup_arg \in {Some(m) : m \in META_SOUPS}
    /\ text_ret = None
    /\ meta_ret = None
    /\ title_ret = None
    /\ name_arg = None
    /\ name_ret = None
    /\ again_ret = None

SpecMeta == MetaInit /\ [][ExtractNext]_vars

(***************************************************************************)
(* extract_title alone, on the markup of one article.                      *)
(***************************************************************************)
\* the content of the i-th meta title tag: no tag, an empty one, "Content "
\* and a title; the last two tags are never empty
META_TITLES(i) ==
    {None, Some(<<"C">> \o Tail(CONTENT) \o <<" ">>), Some(<<" ", "m", i>>)}
        \cup (IF i \in {"1", "2"} THEN {Some(<<>>)} ELSE {})

\* the element of the i-th heading selector: none, a blank one, and the
\* heading "h" + "<i>"; the last two elements are never blank
HEADINGS(i) ==
    {None, Some(<<<<"h", " ">>, <<"\n">>, <<i>>>>)}
        \cup (IF i \in {"1", "2"} THEN {Some(<<<<" ">>>>)} ELSE {})

\* <title>: none, an empty one, "| Nature", "t | Nature News", "t"
TITLE_TAGS ==
    {None, Some(<<>>), Some(<<<<"|", " ">> \o NATURE>>),
     Some(<<<<"t", " ", "|", " ">> \o NATURE \o <<" ", "N", "e", "w", "s">>>>),
     Some(<<<<" ", "t">>>>)}

TITLE_SOUPS ==
    {[metaTitles |-> <<m1, m2, m3, m4>>, headings |-> <<h1, h2, h3, h4>>,
      titleTag |-> t, og |-> None, desc |-> None, vis |-> None,
      body |-> NoTags, dcDate |-> None, datePublished |-> None,
      dcType |-> None, typeSpan |-> None] :
        m1 \in META_TITLES("1"), m2 \in META_TITLES("2"),
        m3 \in META_TITLES("3"), m4 \in META_TITLES("4"),
        h1 \in HEADINGS("1"), h2 \in HEADINGS("2"),
        h3 \in HEADINGS("3"), h4 \in HEADINGS("4"), t \in TITLE_TAGS}

TitleInit ==
    /\ Start(0, <<>>, <<>>)
    /\ soup_arg \in {Some(m) : m \in TITLE_SOUPS}
    /\ text_ret = None
    /\ meta_ret = None
    /\ title_ret = None
    /\ name_arg = None
    /\ name_ret = None
    /\ again_ret = None

\* title = extract_title(asoup)
TitleCall ==
    /\ title_ret = None
    /\ title_ret' = Some(extract_title(Val(soup_arg)))
    /\ UNCHANGED <<crawl_vars, soup_arg, text_ret, meta_ret, name_arg,
                   name_ret, again_ret>>

TitleNext == TitleCall

SpecTitle == TitleInit /\ [][TitleNext]_vars

(***************************************************************************)
(* sanitize_filename alone, on one title and then on the name it returned. *)
(***************************************************************************)
\* letters in either case, white space and punctuation
TITLE_CHARS == {"C", "o", "N", " ", "!"}

TITLES == UNION {[1..n -> TITLE_CHARS] : n \in 0..MaxTitleLen}

SanitizeInit ==
    /\ Start(0, <<>>, <<>>)
    /\ soup_arg = None
    /\ text_ret = None
    /\ meta_ret = None
    /\ title_ret = None
    /\ name_arg \in {Some(t) : t \in TITLES}
    /\ name_ret = None
    /\ again_ret = None

\* sanitize_filename(title)
SanitizeCall ==
    /\ name_ret = None
    /\ name_ret' = Some(sanitize_filename(Val(name_arg), DEFAULT_MAX_LEN))
    /\ UNCHANGED <<crawl_vars, soup_arg, text_ret, meta_ret, title_ret,
                   name_arg, again_ret>>

\* sanitize_filename(sanitize_filename(title))
SanitizeAgain ==
    /\ name_ret # None
    /\ again_ret = None
    /\ again_ret' = Some(sanitize_filename(Val(name_ret), DEFAULT_MAX_LEN))
    /\ UNCHANGED <<crawl_vars, soup_arg, text_ret, meta_ret, title_ret,
                   name_arg, name_ret>>

SanitizeNext == SanitizeCall \/ SanitizeAgain

SpecSanitize == SanitizeInit /\ [][SanitizeNext]_vars

(***************************************************************************)
(* Properties of a run of scrape_nature.                                   *)
(***************************************************************************)
\* the records appended to metadata.jsonl by the run, in order
Records == meta_disk \o meta_buf

RecordsOf(u) == {i \in DOMAIN Records : Records[i].url = u}

\* between two articles, between two pages, or returned
AtRest == pc \in {"items", "listing", "done"}

\* C1: a url that is in seen is skipped before any article request: no url is
\* requested twice, no url has two records, and a url whose request answered
\* 200 has exactly one record once the article is saved.
C1_Dedup ==
    /\ [](\A u \in URLS :
            /\ Len(gets[u]) <= 1
            /\ Cardinality(RecordsOf(u)) <= 1
            /\ (AtRest /\ gets[u] = <<"ok">>) => Cardinality(RecordsOf(u)) = 1)
    /\ [][\A u \in URLS : gets'[u] # gets[u] => u \notin seen]_vars

\* C1: page 2 lists, and matches, a url saved from page 1, and is through
C1_Witness ==
    /\ pc = "items"
    /\ todo = <<>>
    /\ \E i \in DOMAIN Records, j \in DOMAIN listing :
          /\ Records[i].page < page_num
          /\ listing[j].url = Records[i].url
          /\ Matches(listing[j], article_type)
          /\ gets[Records[i].url] = <<"ok">>

Failed(req) == req # None /\ Val(req).status \in FAILURES

\* C2: a failed listing request ends its page only, and the run is at the
\* listing request of the next page; a failed article request ends its
\* article only, and the run is at the next item of the same page; the run
\* never stops before its end but on a file that cannot be written, and at
\* its end it returns the count.
C2_FailureIsolation ==
    /\ [][(last_req' # last_req /\ Failed(last_req')) =>
            IF Val(last_req').op = "listing"
            THEN /\ pc' = "listing"
                 /\ page_num' = page_num + 1
                 /\ Val(last_req').page = page_num
            ELSE /\ pc' = "items"
                 /\ page_num' = page_num
                 /\ todo' = Tail(todo)
                 /\ listing' = listing]_vars
    /\ [][pc' = "crashed" => pc \in {"write", "crashed"}]_vars
    /\ [](pc \notin {"done", "crashed"} => ENABLED CrawlNext)
    /\ []((pc = "listing" /\ page_num <= pages) =>
            ENABLED (\E html \in LISTINGS : ListingOk(html)))
    /\ [](pc = "done" => returned = Some(saved))

\* C2: the listing request of a page that is not the last has failed
C2_Witness ==
    /\ Failed(last_req)
    /\ Val(last_req).op = "listing"
    /\ Val(last_req).page < pages
    /\ pc = "listing"
    /\ page_num = Val(last_req).page + 1

\* C3: the delay is observed between every two consecutive requests: when a
\* request is issued and is not the first of the run, time.sleep(delay) was
\* called since the request before it.
C3_DelayBetweenRequests ==
    [][(last_req' # last_req /\ last_req # None) => slept]_vars

\* C4: every record names a text file that exists under the output directory,
\* and that file was written before the record was appended.
C4_WriteBeforeRecord ==
    /\ [](\A i \in DOMAIN Records :
            /\ Records[i].file \in DOMAIN files
            /\ Records[i].file[1] \in dirs
            /\ i <= Len(writes)
            /\ writes[i].path = Records[i].file)
    /\ [][Len(Records') > Len(Records) =>
            /\ Records'[Len(Records')].file \in DOMAIN files
            /\ writes[Len(writes)].path = Records'[Len(Records')].file]_vars

\* C4: two articles are saved, the second under a suffixed name
C4_Witness ==
    /\ Len(Records) = 2
    /\ writes[2].path = <<1, <<"a", "_", "a">>>>

\* C5: no file that exists is overwritten, and the records of a page name
\* pairwise distinct files.
C5_NoOverwrite ==
    /\ \A i \in DOMAIN writes : ~writes[i].existed
    /\ \A i, j \in DOMAIN Records :
          (i # j /\ Records[i].page = Records[j].page)
              => Records[i].file # Records[j].file

\* C6: an article is requested only for an item of the listing whose declared
\* type is the filter, character for character, unless the filter is empty;
\* and only such items are saved.
C6_TypeFilter ==
    /\ [][\A u \in URLS : gets'[u] # gets[u] =>
            /\ \E i \in DOMAIN listing : listing[i] = Head(todo)
            /\ Head(todo).url = u
            /\ article_type = <<>> \/ Head(todo).type = Some(article_type)]_vars
    /\ [](\A i \in DOMAIN Records :
            article_type = <<>> \/ Records[i].listed_type = Some(article_type))

\* C6: under the filter News a page listing an item without a type and a News
\* item is through: the first was not requested, the second is saved
C6_Witness ==
    /\ article_type = NEWS
    /\ pc = "items"
    /\ todo = <<>>
    /\ \E i, j \in DOMAIN listing :
          /\ listing[i].type = None
          /\ gets[listing[i].url] = <<>>
          /\ listing[j].type = Some(NEWS)
          /\ Cardinality(RecordsOf(listing[j].url)) = 1

\* C7: between articles, saved is the number of records appended and the
\* number of text files written by the run, and the run returns it.
C7_SavedCount ==
    /\ AtRest =>
          /\ saved = Len(Records)
          /\ saved = Cardinality({writes[i].path : i \in DOMAIN writes})
    /\ pc = "done" => returned = Some(saved)

\* C8: a record that was appended is in metadata.jsonl before the next article
\* is processed, and so whenever the run ends.
C8_FlushedIncrementally == Records = meta_disk

\* the article markup yields no text: no container has a paragraph with text,
\* no description and no teaser element has any
YieldsNothing(soup) ==
    /\ \A i \in DOMAIN soup.body :
          soup.body[i] # None =>
              \A k \in DOMAIN Val(soup.body[i]) :
                  \A n \in DOMAIN Val(soup.body[i])[k] :
                      AllWhitespace(Val(soup.body[i])[k][n])
    /\ soup.og # None => AllWhitespace(Val(soup.og))
    /\ soup.desc # None => AllWhitespace(Val(soup.desc))
    /\ soup.vis # None =>
          \A n \in DOMAIN Val(soup.vis) : AllWhitespace(Val(soup.vis)[n])

\* C9: the text of every file the run wrote is not empty and not white space
\* only; the file of an article whose markup yields no text holds the sentinel.
C9_NoEmptyText ==
    /\ \A i \in DOMAIN writes : ~AllWhitespace(files[writes[i].path])
    /\ pc = "record" =>
          /\ files[Val(art).filepath] = Val(art).text
          /\ YieldsNothing(Val(art).soup) => files[Val(art).filepath] = SENTINEL

\* C9: the file of an article whose markup yields no text is written
C9_Witness ==
    /\ pc = "record"
    /\ YieldsNothing(Val(art).soup)
    /\ files[Val(art).filepath] = SENTINEL

\* the listing requests issued so far are those of the pages 1..k, in order
ListingsInOrder ==
    /\ Len(listings) <= pages
    /\ \A i \in DOMAIN listings : listings[i] = i

\* C17: whatever the page count and however the requests end, the listing
\* requests issued are those of the pages 1, 2, ... in ascending order, one
\* each, no page beyond the page count; the run that returns has requested
\* the listing of every page, whether or not a listing failed or was empty;
\* with a page count of 0 no request is issued and 0 is returned; and the run
\* ends (an OSError of open(), which is no outcome of a request, ends it too).
C17_Pagination ==
    /\ [](ListingsInOrder)
    /\ [](pc = "done" => Len(listings) = pages)
    /\ [](pages = 0 => last_req = None /\ (pc = "done" => returned = Some(0)))
    /\ <>(pc \in {"done", "crashed"})

\* C17: a run of at least two pages whose first page saved an article and
\* whose last listing request failed has returned
C17_Witness ==
    /\ pc = "done"
    /\ pages >= 2
    /\ saved > 0
    /\ Failed(last_req)
    /\ Val(last_req).op = "listing"
    /\ Val(last_req).page = pages
    /\ Len(listings) = pages

HEX_DIGITS == DIGITS \cup {"a", "b", "c", "d", "e", "f"}

\* the name the article about to be written gets when no file has it yet
BaseName ==
    LET s == sanitize_filename(Val(art).title, DEFAULT_MAX_LEN)
    IN  IF s # <<>> THEN s ELSE <<"a","r","t","i","c","l","e">>

\* C18: when the path of the base name exists already, the name of the file
\* about to be written is the base name, "_" and exactly six hexadecimal
\* digits, whatever the hash of the url.
C18_SixHexDigits ==
    (pc = "write" /\ Val(art).filepath # <<page_num, BaseName>>) =>
        LET name == Val(art).filepath[2]
            stem == BaseName \o <<"_">>
        IN  /\ Val(art).filepath[1] = page_num
            /\ Len(name) = Len(stem) + 6
            /\ SubSeq(name, 1, Len(stem)) = stem
            /\ \A i \in (Len(stem) + 1)..Len(name) : name[i] \in HEX_DIGITS

\* the step issues a request, which fails
FailedRequest == last_req' # last_req /\ Failed(last_req')

\* C19: a listing or article request that fails writes no file, appends no
\* record and leaves the count of saved articles as it is: the files, their
\* texts, the directories and the records are after it what they were.
C19_NoRollback ==
    [][FailedRequest =>
          /\ files' = files
          /\ dirs' = dirs
          /\ writes' = writes
          /\ Records' = Records
          /\ meta_disk' = meta_disk
          /\ saved' = saved]_vars

\* C19: an article request has just failed on a page of which an article was
\* saved before: its file and its record are there
C19_Witness ==
    /\ Failed(last_req)
    /\ Val(last_req).op = "article"
    /\ pc = "items"
    /\ \E i \in DOMAIN Records :
          /\ Records[i].page = page_num
          /\ Records[i].file \in DOMAIN files
    /\ saved > 0

\* the urls of the items
UrlsOf(items) == {items[i].url : i \in DOMAIN items}

\* C20: seen is the set of the urls an article request was issued for (a url
\* enters it in the step that requests it, whatever the outcome) and it only
\* grows; no url is requested twice, so that one whose request failed is not
\* requested again; and a url enters seen only as that of an item of the
\* current listing that passes the type filter.
C20_SeenCoversFailures ==
    /\ [](seen = {u \in URLS : gets[u] # <<>>})
    /\ [](\A u \in URLS : Len(gets[u]) <= 1)
    /\ [][/\ seen \subseteq seen'
          /\ \A u \in seen' \ seen :
                /\ gets'[u] # gets[u]
                /\ u \in UrlsOf(Matched(listing, article_type))]_vars

\* C20: the second page lists, among the items that pass the filter, a url
\* whose request failed on the first page, and has gone past it without a
\* request; an item of the page that the filter excludes is not in seen
C20_Witness ==
    /\ pc = "items"
    /\ page_num = 2
    /\ last_req # None
    /\ Val(last_req).op = "listing"
    /\ Val(last_req).page = 2
    /\ \E u \in UrlsOf(Matched(listing, article_type)) :
          /\ gets[u] \in {<<f>> : f \in FAILURES}
          /\ u \notin UrlsOf(todo)
    /\ \E j \in DOMAIN listing :
          /\ ~Matches(listing[j], article_type)
          /\ listing[j].url \notin seen

(***************************************************************************)
(* Properties of extract_teaser_or_body.                                   *)
(***************************************************************************)
\* the texts of the paragraphs of a selected container that have any
ParagraphsOf(c) ==
    SelectNonEmpty([k \in DOMAIN Val(c) |-> GetText(Val(c)[k], <<" ">>)])

BodyTextOf(soup) ==
    LET yields == {i \in DOMAIN soup.body :
                      soup.body[i] # None /\ ParagraphsOf(soup.body[i]) # <<>>}
    IN  IF yields = {} THEN <<>>
        ELSE LET first == CHOOSE i \in yields : \A j \in yields : i <= j
             IN  Join(ParagraphsOf(soup.body[first]), <<"\n", "\n">>)

MetaTeaserOf(soup) ==
    IF soup.og # None /\ ~AllWhitespace(Val(soup.og)) THEN Strip(Val(soup.og))
    ELSE IF soup.desc # None /\ ~AllWhitespace(Val(soup.desc))
         THEN Strip(Val(soup.desc))
         ELSE <<>>

TeaserOf(soup) ==
    IF MetaTeaserOf(soup) # <<>> THEN MetaTeaserOf(soup)
    ELSE IF soup.vis # None THEN GetText(Val(soup.vis), <<>>)
    ELSE <<>>

\* C10: the text returned is the body text (the paragraphs with text of the
\* first container, in order, that has any, joined by a blank line) if there
\* is one, else the teaser (the first meta description with text, the visible
\* teaser only when there is none), else the sentinel.
C10_BodyTeaserPrecedence ==
    text_ret # None =>
        Val(text_ret) =
            IF BodyTextOf(Val(soup_arg)) # <<>> THEN BodyTextOf(Val(soup_arg))
            ELSE IF TeaserOf(Val(soup_arg)) # <<>> THEN TeaserOf(Val(soup_arg))
            ELSE SENTINEL

\* C10: the containers selected have no text, og:description is blank and
\* there is a visible teaser: the description is returned
C10_Witness ==
    /\ text_ret = Some(<<"d">>)
    /\ Val(soup_arg).body[1] # None
    /\ Val(soup_arg).og = Some(<<" ">>)
    /\ Val(soup_arg).vis # None
    /\ GetText(Val(Val(soup_arg).vis), <<>>) # <<>>

(***************************************************************************)
(* Properties of extract_title.                                            *)
(***************************************************************************)
\* the meta title tags whose content is accepted
AcceptedMeta(soup) ==
    {i \in DOMAIN soup.metaTitles :
        /\ soup.metaTitles[i] # None
        /\ ~AllWhitespace(Val(soup.metaTitles[i]))
        /\ Lower(Strip(Val(soup.metaTitles[i]))) # CONTENT}

\* the heading selectors whose element has text
AcceptedHeadings(soup) ==
    {i \in DOMAIN soup.headings :
        /\ soup.headings[i] # None
        /\ \E k \in DOMAIN Val(soup.headings[i]) :
               ~AllWhitespace(Val(soup.headings[i])[k])}

\* the text of <title> without its " | Nature..." suffix, "" without <title>
TitleCandidate(soup) ==
    IF soup.titleTag = None THEN <<>>
    ELSE StripNatureSuffix(GetText(Val(soup.titleTag), <<>>))

Least(S) == CHOOSE i \in S : \A j \in S : i <= j

\* C11: the title returned is never empty, and it is "No Title" whenever no
\* meta tag, no heading and no <title> yields a non-empty candidate.
C11_NoTitleDefault ==
    title_ret # None =>
        /\ Val(title_ret) # <<>>
        /\ ( /\ AcceptedMeta(Val(soup_arg)) = {}
             /\ AcceptedHeadings(Val(soup_arg)) = {}
             /\ TitleCandidate(Val(soup_arg)) = <<>>
             => Val(title_ret) = NO_TITLE )

\* C12: the title returned is the content of the first accepted meta tag, else
\* the text of the first heading that has any, else what <title> yields; a
\* title that comes from a meta tag is neither empty nor "content".
C12_FallbackOrder ==
    title_ret # None =>
        LET soup == Val(soup_arg)
            title == Val(title_ret)
        IN  IF AcceptedMeta(soup) # {}
            THEN /\ title = Strip(Val(soup.metaTitles[Least(AcceptedMeta(soup))]))
                 /\ title # <<>>
                 /\ Lower(title) # CONTENT
            ELSE IF AcceptedHeadings(soup) # {}
            THEN title = GetText(Val(soup.headings[Least(AcceptedHeadings(soup))]),
                                 <<" ">>)
            ELSE title = StripNatureSuffix(
                             IF soup.titleTag = None THEN NO_TITLE
                             ELSE GetText(Val(soup.titleTag), <<>>))

\* C12: og:title is empty and dc.title is "Content ": both are rejected and the
\* title is that of twitter:title, though a heading and <title> have text
C12_Witness ==
    /\ title_ret = Some(<<"m", "4">>)
    /\ Val(soup_arg).metaTitles[1] = Some(<<>>)
    /\ Val(soup_arg).metaTitles[2] # None
    /\ Val(Val(soup_arg).metaTitles[2]) # <<>>
    /\ Lower(Strip(Val(Val(soup_arg).metaTitles[2]))) = CONTENT
    /\ Val(soup_arg).metaTitles[3] = None
    /\ AcceptedHeadings(Val(soup_arg)) # {}
    /\ TitleCandidate(Val(soup_arg)) # <<>>

(***************************************************************************)
(* Properties of sanitize_filename.                                        *)
(***************************************************************************)
\* C13: the name returned for a title, with the default maximum length, is
\* never empty.
C13_NeverEmpty == name_ret # None => Val(name_ret) # <<>>

\* C14: the name returned for a title, as it is after the truncation and the
\* removal of trailing underscores, is in no case a reserved device name.
C14_NeverReserved ==
    name_ret # None => Upper(Val(name_ret)) \notin WINDOWS_RESERVED

\* C15: the name returned for a name that sanitize_filename returned is that
\* name.
C15_Idempotent == again_ret # None => again_ret = name_ret

(***************************************************************************)
(* Properties of the meta of extract_teaser_or_body.                       *)
(***************************************************************************)
\* C16: the meta returned has no other key than "published" and "type", and
\* the value of a key it has is not the empty string.
C16_NoEmptyMeta ==
    meta_ret # None =>
        /\ DOMAIN Val(meta_ret) \subseteq {"published", "type"}
        /\ \A k \in DOMAIN Val(meta_ret) : Val(meta_ret)[k] # <<>>

=============================================================================
